---- MODULE Spec2Model ----
(***************************************************************************)
(* shake: a task runner / dependency resolver.                             *)
(*                                                                         *)
(* Two generations of the linearizing design are modelled side by side:    *)
(*   "shake"  src/shake.ts lines 112-365: findCycle + tsort, Task,         *)
(*            FileTask (re-stats the target after the body);               *)
(*   "part0"  src/unnamed/part_000: topsort, Task, File (records "now").   *)
(* A node is a number in Nodes (reference identity); deps[n] is the        *)
(* node's ordered dependency array.                                        *)
(***************************************************************************)
EXTENDS Integers, Sequences, FiniteSets, TLC

\* ---- bounds of the model
NumNodes == 3
MaxEdges == 3
MaxRoots == 2
\* files wired into the staleness graphs; the clock starts at InitNow, stops at MaxTime
FileSize == 2
InitNow == 1
MaxTime == 2
\* change events the watcher delivers
MaxEvents == 2
\* nodes wired into the graphs a watch loop runs
WatchSize == 2

\* ---- program constants
\* test.ts enumerates binaries(3): three vertices, 3*3 edge bits
TestSize == 3

Nodes == 1..NumNodes
Impls == {"shake", "part0"}

\* the synthetic `new Task(tasks, () => {})` findCycle starts from
Root == 0

\* fs.stat of a target that does not exist (fs.NotFoundError)
NotFound == -1

\* fs.stat rejecting with an error that is not fs.NotFoundError
Denied == -2

\* fs.stat resolving with a stat whose mtime is null
NoMtime == -3

VARIABLES
  deps,     \* TaskLike.deps of every node: [Nodes -> Seq(Nodes)]
  kind,     \* "task" (class Task) | "file" (class FileTask / File)
  body,     \* #body of every node: "ok" returns, "throw" throws, "any" may do either
  fs,       \* mtime of every file node's #target, or NotFound
  now,      \* what new Date() returns
  impl,     \* which generation of run() is executing
  roots,    \* the ...tasks argument of run
  pc,       \* "new" (nothing constructed) | "idle" (constructed, no run yet) |
            \* "running" | "resolved" | "rejected"
  order,    \* the array the for-of loop of run iterates
  idx,      \* position of that loop in order (1-based)
  state,    \* let state: State
  calls,    \* per node, how often its body was invoked in the current run
  err,      \* what run rejected with: "none" | "cyclic dependency" | "body" |
            \* "NotFoundError" | "PermissionDenied" | "invalid mtime"
  failedAt, \* the node whose run() threw, 0 if none
  runNo,    \* how many runs were started
  fs0,      \* fs as it was when the current run started
  prev,     \* the State the previous run of the watch loop resolved with
  stack,    \* Runnable variant: the chain of run() calls in progress
  wpc,      \* watch(): "off" | "watching" (inside the for-await loop) | "rejected"
  pending,  \* change events the watcher has queued and the loop has not consumed
  consumed  \* change events the loop has consumed

graphVars == <<deps, kind, body>>
runVars   == <<impl, roots, pc, order, idx, state, calls, err, failedAt, runNo, fs0, prev, stack>>
watchVars == <<wpc, pending, consumed>>
vars == <<deps, kind, body, fs, now, impl, roots, pc, order, idx, state, calls, err,
          failedAt, runNo, fs0, prev, stack, wpc, pending, consumed>>

\* Array.prototype.includes on an array of node references
includes(s, x) == \E i \in 1..Len(s) : s[i] = x

status(task, mtime) == [task |-> task, mtime |-> mtime]

\* ------------------------------------------------------------------------
\* shake.ts findCycle: path-based search from the synthetic root, no visited
\* set; <<>> stands for undefined (a real cycle path has length >= 2).
depsOf(d, tasks, task) == IF task = Root THEN tasks ELSE d[task]

RECURSIVE findCycleVisit(_, _, _, _)
RECURSIVE findCycleFind(_, _, _, _, _)
\* mutant: only the first dependency is searched
findCycleFind_FirstOnly(d, tasks, path, ds, i) ==
  IF i > Len(ds) THEN <<>> ELSE findCycleVisit(d, tasks, path, ds[i])

findCycleVisit(d, tasks, path, task) ==
  IF includes(path, task)
    THEN Append(path, task)
    ELSE findCycleFind(d, tasks, Append(path, task), depsOf(d, tasks, task), 1)

\* .map(dep => visit(...)).find(cycle => cycle && cycle.length > 0)
findCycleFind(d, tasks, path, ds, i) ==
  IF i > Len(ds)
    THEN <<>>
    ELSE LET cycle == findCycleVisit(d, tasks, path, ds[i])
         IN IF Len(cycle) > 0 THEN cycle
            ELSE findCycleFind(d, tasks, path, ds, i + 1)

findCycle(d, tasks) == findCycleVisit(d, tasks, <<>>, Root)

\* ------------------------------------------------------------------------
\* shake.ts tsort: TsortState = [visited, sorted], threaded by reduce
RECURSIVE tsortVisit(_, _, _)
RECURSIVE tsortReduce(_, _, _, _)
\* mutant: the visited short-circuit is missing
tsortVisit_NoShortCircuit(d, st, task) ==
  LET st2 == tsortReduce(d, st, d[task], 1)
  IN [visited |-> st2.visited, sorted |-> Append(st2.sorted, task)]

\* mutant: the task is placed before its dependencies
tsortVisit_PreOrder(d, st, task) ==
  IF includes(st.visited, task)
    THEN st
    ELSE tsortReduce(d, [visited |-> Append(st.visited, task),
                         sorted |-> Append(st.sorted, task)], d[task], 1)

tsortVisit(d, st, task) ==
  IF includes(st.visited, task)
    THEN st
    ELSE LET st1 == [visited |-> Append(st.visited, task), sorted |-> st.sorted]
             st2 == tsortReduce(d, st1, d[task], 1)
         IN [visited |-> st2.visited, sorted |-> Append(st2.sorted, task)]

tsortReduce(d, st, ts, i) ==
  IF i > Len(ts) THEN st
  ELSE tsortReduce(d, tsortVisit(d, st, ts[i]), ts, i + 1)

tsort(d, tasks) ==
  tsortReduce(d, [visited |-> <<>>, sorted |-> <<>>], tasks, 1).sorted

\* ------------------------------------------------------------------------
\* part_000 topsort: one pass, throws on a node met again on the current path.
\* st = [visited, sorted, thrown]; thrown models the exception unwinding.
RECURSIVE topsortVisit(_, _, _, _)
RECURSIVE topsortEach(_, _, _, _, _)
\* mutant: a node met again is taken for a cycle, on the path or not
topsortVisit_VisitedIsCycle(d, st, task, path) ==
  IF includes(path, task) \/ task \in st.visited THEN [st EXCEPT !.thrown = TRUE]
  ELSE LET st1 == [st EXCEPT !.visited = @ \cup {task}]
           st2 == topsortEach(d, st1, d[task], Append(path, task), 1)
       IN IF st2.thrown THEN st2
          ELSE [st2 EXCEPT !.sorted = Append(@, task)]

\* mutant: visited is consulted before the path, so no cycle is ever seen
topsortVisit_VisitedFirst(d, st, task, path) ==
  IF task \in st.visited THEN st
  ELSE IF includes(path, task) THEN [st EXCEPT !.thrown = TRUE]
  ELSE LET st1 == [st EXCEPT !.visited = @ \cup {task}]
           st2 == topsortEach(d, st1, d[task], Append(path, task), 1)
       IN IF st2.thrown THEN st2
          ELSE [st2 EXCEPT !.sorted = Append(@, task)]

topsortVisit(d, st, task, path) ==
  IF includes(path, task) THEN [st EXCEPT !.thrown = TRUE]
  ELSE IF task \in st.visited THEN st
  ELSE LET st1 == [st EXCEPT !.visited = @ \cup {task}]
           st2 == topsortEach(d, st1, d[task], Append(path, task), 1)
       IN IF st2.thrown THEN st2
          ELSE [st2 EXCEPT !.sorted = Append(@, task)]

\* mutant: the dependencies are visited from the last to the first
topsortEach_Backwards(d, st, ts, path, i) ==
  IF i > Len(ts) \/ st.thrown THEN st
  ELSE topsortEach(d, topsortVisit(d, st, ts[Len(ts) + 1 - i], path), ts, path, i + 1)

topsortEach(d, st, ts, path, i) ==
  IF i > Len(ts) \/ st.thrown THEN st
  ELSE topsortEach(d, topsortVisit(d, st, ts[i], path), ts, path, i + 1)

topsort(d, tasks) ==
  topsortEach(d, [visited |-> {}, sorted |-> <<>>, thrown |-> FALSE],
              tasks, <<>>, 1)

\* ------------------------------------------------------------------------
\* What run() learns before its loop: shake.ts calls findCycle, then tsort;
\* part_000 calls topsort, which throws by itself.
linearize(v, d, tasks) ==
  IF v = "shake"
    THEN IF findCycle(d, tasks) # <<>>
           THEN [cyclic |-> TRUE, sorted |-> <<>>]
           ELSE [cyclic |-> FALSE, sorted |-> tsort(d, tasks)]
    ELSE LET st == topsort(d, tasks)
         IN IF st.thrown THEN [cyclic |-> TRUE, sorted |-> <<>>]
            ELSE [cyclic |-> FALSE, sorted |-> st.sorted]

NoCalls == [n \in Nodes |-> 0]

\* run(...tasks) up to the first await of its loop
RunBegin(v, tasks) ==
  LET lin == linearize(v, deps, tasks)
  IN /\ impl' = v
     /\ roots' = tasks
     /\ state' = <<>>
     /\ calls' = NoCalls
     /\ failedAt' = 0
     /\ idx' = 1
     /\ runNo' = runNo + 1
     /\ fs0' = fs
     /\ order' = lin.sorted
     /\ IF lin.cyclic
          THEN pc' = "rejected" /\ err' = "cyclic dependency"
          ELSE pc' = "running" /\ err' = "none"

\* a caller invoking run(...tasks) once on the constructed graph
RunStart(v, tasks) ==
  /\ pc = "idle"
  /\ wpc = "off"
  /\ RunBegin(v, tasks)
  /\ UNCHANGED <<graphVars, fs, now, prev, stack, watchVars>>

\* whether a call of node n's #body can return (TRUE) or throw (FALSE)
BodyReturns(n) ==
  IF body[n] = "ok" THEN {TRUE}
  ELSE IF body[n] = "throw" THEN {FALSE}
  ELSE BOOLEAN

\* mutant: the error of the body is noted and the loop of run goes on
TaskRun_KeepsGoing(ok) ==
  /\ pc = "running"
  /\ idx <= Len(order)
  /\ kind[order[idx]] = "task"
  /\ LET n == order[idx]
     IN /\ ok \in BodyReturns(n)
        /\ calls' = [calls EXCEPT ![n] = @ + 1]
        /\ idx' = idx + 1
        /\ IF ok
             THEN /\ state' = state \o <<status(n, now)>>
                  /\ UNCHANGED <<pc, err, failedAt>>
             ELSE /\ err' = "body"
                  /\ failedAt' = n
                  /\ UNCHANGED <<state, pc>>
  /\ UNCHANGED <<graphVars, fs, now, impl, roots, order, runNo, fs0, prev, stack, watchVars>>

\* mutant: a task whose body ran in an earlier run is taken for done
TaskRun_OnceOnly(ok) ==
  /\ pc = "running"
  /\ idx <= Len(order)
  /\ kind[order[idx]] = "task"
  /\ LET n == order[idx]
     IN IF runNo > 1
          THEN /\ ok
               /\ state' = state \o <<status(n, now)>>
               /\ idx' = idx + 1
               /\ UNCHANGED <<calls, pc, err, failedAt>>
          ELSE /\ ok \in BodyReturns(n)
               /\ calls' = [calls EXCEPT ![n] = @ + 1]
               /\ IF ok
                    THEN /\ state' = state \o <<status(n, now)>>
                         /\ idx' = idx + 1
                         /\ UNCHANGED <<pc, err, failedAt>>
                    ELSE /\ pc' = "rejected"
                         /\ err' = "body"
                         /\ failedAt' = n
                         /\ UNCHANGED <<state, idx>>
  /\ UNCHANGED <<graphVars, fs, now, impl, roots, order, runNo, fs0, prev, stack, watchVars>>

\* mutant: the Status is appended before the body is awaited
TaskRun_AppendsFirst(ok) ==
  /\ pc = "running"
  /\ idx <= Len(order)
  /\ kind[order[idx]] = "task"
  /\ LET n == order[idx]
     IN /\ ok \in BodyReturns(n)
        /\ calls' = [calls EXCEPT ![n] = @ + 1]
        /\ state' = state \o <<status(n, now)>>
        /\ IF ok
             THEN /\ idx' = idx + 1
                  /\ UNCHANGED <<pc, err, failedAt>>
             ELSE /\ pc' = "rejected"
                  /\ err' = "body"
                  /\ failedAt' = n
                  /\ UNCHANGED idx
  /\ UNCHANGED <<graphVars, fs, now, impl, roots, order, runNo, fs0, prev, stack, watchVars>>

\* Task.run(state): await this.#body(); return state.concat(status(this, new Date()))
TaskRun(ok) ==
  /\ pc = "running"
  /\ idx <= Len(order)
  /\ kind[order[idx]] = "task"
  /\ LET n == order[idx]
     IN /\ ok \in BodyReturns(n)
        /\ calls' = [calls EXCEPT ![n] = @ + 1]
        /\ IF ok
             THEN /\ state' = state \o <<status(n, now)>>
                  /\ idx' = idx + 1
                  /\ UNCHANGED <<pc, err, failedAt>>
             ELSE /\ pc' = "rejected"
                  /\ err' = "body"
                  /\ failedAt' = n
                  /\ UNCHANGED <<state, idx>>
  /\ UNCHANGED <<graphVars, fs, now, impl, roots, order, runNo, fs0, prev, stack, watchVars>>

\* mutant: the loop of run stops one node short
RunReturn_SkipsLast ==
  /\ pc = "running"
  /\ idx >= Len(order)
  /\ pc' = "resolved"
  /\ UNCHANGED <<graphVars, fs, now, impl, roots, order, idx, state, calls, err,
                 failedAt, runNo, fs0, prev, stack, watchVars>>

\* the for-of loop of run is exhausted: return state
RunReturn ==
  /\ pc = "running"
  /\ idx > Len(order)
  /\ pc' = "resolved"
  /\ UNCHANGED <<graphVars, fs, now, impl, roots, order, idx, state, calls, err,
                 failedAt, runNo, fs0, prev, stack, watchVars>>

\* ------------------------------------------------------------------------
\* Staleness-tracked nodes.  Times are integers, 0 is new Date(0).

\* what a #body call does to the node's own target when it does not throw:
\* write it (mtime becomes now), leave it alone, or remove it
BodyEffects == {"write", "none", "remove"}

applyEffect(f, n, eff, t) ==
  IF eff = "write" THEN [f EXCEPT ![n] = t]
  ELSE IF eff = "remove" THEN [f EXCEPT ![n] = NotFound]
  ELSE f

\* what the try/catch around the first fs.stat lets out: an error that is not
\* fs.NotFoundError is thrown again; shake.ts FileTask.run (lines 274-276)
\* throws "invalid mtime" inside the try for a null mtime, part_000 File.run
\* (line 163) has `stat.mtime ?? new Date(0)` instead
statError(v, f, n) ==
  IF f[n] = Denied THEN "PermissionDenied"
  ELSE IF f[n] = NoMtime /\ v = "shake" THEN "invalid mtime"
  ELSE "none"

\* the mtime the first stat leaves when nothing is thrown: NotFoundError
\* becomes new Date(0), and so does part_000's null mtime
statOrEpoch(f, n) == IF f[n] = NotFound \/ f[n] = NoMtime THEN 0 ELSE f[n]

\* shake.ts FileTask.run lines 290-295:
\*   let shouldRunBody = mtime.getTime() === 0;
\*   for (i = 0; i < state.length && !shouldRunBody; i++)
\*     shouldRunBody = isDep && isModified      (isModified: state[i].mtime >= mtime)
RECURSIVE shouldRunBodyLoop(_, _, _, _, _)
\* mutant: isDep is forgotten, any newer Status triggers the body
shouldRunBodyLoop_AnyStatus(should, st, ds, mtime, i) ==
  should \/ \E j \in i..Len(st) : st[j].mtime >= mtime

shouldRunBodyLoop(should, st, ds, mtime, i) ==
  IF ~(i <= Len(st) /\ ~should) THEN should
  ELSE LET isDep == includes(ds, st[i].task)
           isModified == st[i].mtime >= mtime
       IN shouldRunBodyLoop(isDep /\ isModified, st, ds, mtime, i + 1)

shouldRunBody(st, ds, mtime) == shouldRunBodyLoop(mtime = 0, st, ds, mtime, 1)

\* mutant: the mtime read before the body is recorded
restat_FirstStat(f, n) == statOrEpoch(fs, n)

\* shake.ts FileTask.run lines 299-303: the second fs.stat, after the body
restat(f, n) == f[n]

\* shake.ts FileTask.run(state)
FileTaskRun(ok, eff) ==
  /\ pc = "running"
  /\ idx <= Len(order)
  /\ kind[order[idx]] = "file"
  /\ impl = "shake"
  /\ LET n == order[idx]
         mtime == statOrEpoch(fs, n)
     IN IF statError(impl, fs, n) # "none"
          THEN /\ ok /\ eff = "none"
               /\ pc' = "rejected" /\ err' = statError(impl, fs, n) /\ failedAt' = n
               /\ UNCHANGED <<fs, state, idx, calls>>
        ELSE IF shouldRunBody(state, deps[n], mtime)
          THEN /\ ok \in BodyReturns(n)
               /\ calls' = [calls EXCEPT ![n] = @ + 1]
               /\ IF ~ok
                    THEN /\ eff = "none"
                         /\ pc' = "rejected" /\ err' = "body" /\ failedAt' = n
                         /\ UNCHANGED <<fs, state, idx>>
                    ELSE /\ fs' = applyEffect(fs, n, eff, now)
                         \* const stat = await fs.stat(this.#target) after the body
                         /\ IF restat(fs', n) = NotFound
                              THEN /\ pc' = "rejected" /\ err' = "NotFoundError"
                                   /\ failedAt' = n
                                   /\ UNCHANGED <<state, idx>>
                              ELSE /\ state' = state \o <<status(n, restat(fs', n))>>
                                   /\ idx' = idx + 1
                                   /\ UNCHANGED <<pc, err, failedAt>>
          ELSE /\ ok /\ eff = "none"
               /\ state' = state \o <<status(n, restat(fs, n))>>
               /\ idx' = idx + 1
               /\ UNCHANGED <<fs, calls, pc, err, failedAt>>
  /\ UNCHANGED <<graphVars, now, impl, roots, order, runNo, fs0, prev, stack, watchVars>>

\* part_000 File.run lines 171-177: the first Status of a dependency that is
\* strictly newer than the target triggers the body
bodyTriggered(st, ds, mtime) ==
  \E i \in 1..Len(st) : includes(ds, st[i].task) /\ st[i].mtime > mtime

\* part_000 File.run(state)
FileRun(ok, eff) ==
  /\ pc = "running"
  /\ idx <= Len(order)
  /\ kind[order[idx]] = "file"
  /\ impl = "part0"
  /\ LET n == order[idx]
         mtime == statOrEpoch(fs, n)
     IN IF statError(impl, fs, n) # "none"
          THEN /\ ok /\ eff = "none"
               /\ pc' = "rejected" /\ err' = statError(impl, fs, n) /\ failedAt' = n
               /\ UNCHANGED <<fs, state, idx, calls>>
        ELSE IF bodyTriggered(state, deps[n], mtime)
          THEN /\ ok \in BodyReturns(n)
               /\ calls' = [calls EXCEPT ![n] = @ + 1]
               /\ IF ~ok
                    THEN /\ eff = "none"
                         /\ pc' = "rejected" /\ err' = "body" /\ failedAt' = n
                         /\ UNCHANGED <<fs, state, idx>>
                    ELSE /\ fs' = applyEffect(fs, n, eff, now)
                         \* mtime = new Date()
                         /\ state' = state \o <<status(n, now)>>
                         /\ idx' = idx + 1
                         /\ UNCHANGED <<pc, err, failedAt>>
          ELSE /\ ok /\ eff = "none"
               /\ state' = state \o <<status(n, mtime)>>
               /\ idx' = idx + 1
               /\ UNCHANGED <<fs, calls, pc, err, failedAt>>
  /\ UNCHANGED <<graphVars, now, impl, roots, order, runNo, fs0, prev, stack, watchVars>>

\* the caller awaits run(...) and calls it a second time with the same arguments
RunAgain ==
  /\ pc = "resolved"
  /\ wpc = "off"
  /\ runNo = 1
  /\ RunBegin(impl, roots)
  /\ UNCHANGED <<graphVars, fs, now, prev, stack, watchVars>>

\* the wall clock advances while a run or the watch loop is awaiting
Tick ==
  /\ pc = "running" \/ wpc = "watching"
  /\ now < MaxTime
  /\ now' = now + 1
  /\ UNCHANGED <<graphVars, fs, runVars, watchVars>>

\* ------------------------------------------------------------------------
\* watch(path, ...tasks):
\*   const watcher = fs.FsWatcher();
\*   for await (const _event of watcher.watch(path)) { await run(...tasks); }

\* watch is called: the watcher exists and the loop awaits its first event
WatchStart(v, tasks) ==
  /\ wpc = "off"
  /\ pc = "idle"
  /\ wpc' = "watching"
  /\ impl' = v
  /\ roots' = tasks
  /\ UNCHANGED <<graphVars, fs, now, pc, order, idx, state, calls, err, failedAt,
                 runNo, fs0, prev, stack, pending, consumed>>

\* something under the watched path changes: the watcher queues an event.
\* n = 0 is a file that is no node's target, otherwise node n's target is
\* written (its mtime becomes now) or removed.
FsEvent(n, eff) ==
  /\ wpc = "watching"
  /\ pending + consumed < MaxEvents
  /\ pending' = pending + 1
  /\ eff \in {"write", "remove"}
  /\ IF n = 0 THEN eff = "write" /\ fs' = fs
     ELSE kind[n] = "file" /\ fs' = applyEffect(fs, n, eff, now)
  /\ UNCHANGED <<graphVars, now, runVars, wpc, consumed>>

\* mutant: run(...tasks) is not awaited, the loop takes the next event at once
WatchNext_NoAwait ==
  /\ wpc = "watching"
  /\ pending > 0
  /\ pending' = pending - 1
  /\ consumed' = consumed + 1
  /\ RunBegin(impl, roots)
  /\ prev' = state
  /\ UNCHANGED <<graphVars, fs, now, stack, wpc>>

\* the for-await loop takes the next event and calls run(...tasks)
WatchNext ==
  /\ wpc = "watching"
  /\ pc \in {"idle", "resolved"}
  /\ pending > 0
  /\ pending' = pending - 1
  /\ consumed' = consumed + 1
  /\ RunBegin(impl, roots)
  /\ prev' = state
  /\ UNCHANGED <<graphVars, fs, now, stack, wpc>>

\* await run(...tasks) throws: nothing in watch catches it, the loop is left
\* and the promise watch returned rejects
WatchThrow ==
  /\ wpc = "watching"
  /\ pc = "rejected"
  /\ wpc' = "rejected"
  /\ UNCHANGED <<graphVars, fs, now, runVars, pending, consumed>>

\* ------------------------------------------------------------------------
\* The Runnable variant (shake.ts lines 1-110): run() of a node calls run()
\* of each of its dependencies itself and returns a Status; there is no
\* linearizer and no State.  stack holds one frame per run() call in progress:
\* the node, the position of its loop over #deps, and File's deps_mtime.
frame(n) == [node |-> n, i |-> 1, deps_mtime |-> 0]

\* run(...tasks) of the Runnable variant is called
RunnableStart(tasks) ==
  /\ pc = "idle"
  /\ wpc = "off"
  /\ impl' = "runnable"
  /\ roots' = tasks
  /\ idx' = 1
  /\ calls' = NoCalls
  /\ stack' = <<>>
  /\ pc' = "running"
  /\ err' = "none"
  /\ failedAt' = 0
  /\ runNo' = runNo + 1
  /\ fs0' = fs
  /\ UNCHANGED <<graphVars, fs, now, order, state, prev, watchVars>>

\* `await task.run()` in run, `await source.run()` in Task.run,
\* `await dependency.run()` in File.run: the callee's frame is entered
RunnableCall ==
  /\ pc = "running"
  /\ impl = "runnable"
  /\ IF stack = <<>>
       THEN /\ idx <= Len(roots)
            /\ stack' = <<frame(roots[idx])>>
       ELSE LET top == stack[Len(stack)]
            IN /\ top.i <= Len(deps[top.node])
               /\ stack' = Append(stack, frame(deps[top.node][top.i]))
  /\ UNCHANGED <<graphVars, fs, now, impl, roots, pc, order, idx, state, calls, err,
                 failedAt, runNo, fs0, prev, watchVars>>

\* the top frame returns a success Status dated mtime to its caller: run's
\* loop goes to the next root, a node's loop to its next dependency (File
\* keeps the maximum in deps_mtime)
returnSuccess(stk, mtime) ==
  IF Len(stk) = 1 THEN <<>>
  ELSE LET rest == SubSeq(stk, 1, Len(stk) - 1)
           parent == rest[Len(rest)]
           newer == IF parent.deps_mtime > mtime THEN parent.deps_mtime ELSE mtime
       IN [rest EXCEPT ![Len(rest)] =
             [node |-> parent.node, i |-> parent.i + 1,
              deps_mtime |-> IF kind[parent.node] = "file" THEN newer ELSE 0]]

\* Task.run (Runnable) once its loop over #deps is done: the body, then the Status.
\* A failure Status is returned by every caller up to run, which logs it and
\* goes on with the next root.
RunnableTaskBody(ok) ==
  /\ pc = "running"
  /\ impl = "runnable"
  /\ stack # <<>>
  /\ LET top == stack[Len(stack)]
         n == top.node
     IN /\ kind[n] = "task"
        /\ top.i > Len(deps[n])
        /\ ok \in BodyReturns(n)
        /\ calls' = [calls EXCEPT ![n] = @ + 1]
        /\ IF ok
             THEN /\ stack' = returnSuccess(stack, now)
                  /\ idx' = IF Len(stack) = 1 THEN idx + 1 ELSE idx
                  /\ UNCHANGED <<err, failedAt>>
             ELSE /\ stack' = <<>>
                  /\ idx' = idx + 1
                  /\ err' = "body"
                  /\ failedAt' = n
  /\ UNCHANGED <<graphVars, fs, now, impl, roots, pc, order, state, runNo, fs0, prev,
                 watchVars>>

\* File.run (Runnable) once its loop over #deps is done: fs.stat without a
\* catch (a missing target rejects run), the body when the target is not
\* newer than deps_mtime, then the Status
RunnableFileBody(ok, eff) ==
  /\ pc = "running"
  /\ impl = "runnable"
  /\ stack # <<>>
  /\ LET top == stack[Len(stack)]
         n == top.node
     IN /\ kind[n] = "file"
        /\ top.i > Len(deps[n])
        /\ IF fs[n] = NotFound
             THEN /\ ok /\ eff = "none"
                  /\ pc' = "rejected" /\ err' = "NotFoundError" /\ failedAt' = n
                  /\ UNCHANGED <<fs, stack, idx, calls>>
             ELSE IF fs[n] <= top.deps_mtime
               THEN /\ ok \in BodyReturns(n)
                    /\ calls' = [calls EXCEPT ![n] = @ + 1]
                    /\ IF ok
                         THEN /\ fs' = applyEffect(fs, n, eff, now)
                              /\ stack' = returnSuccess(stack, now)
                              /\ idx' = IF Len(stack) = 1 THEN idx + 1 ELSE idx
                              /\ UNCHANGED <<pc, err, failedAt>>
                         ELSE /\ eff = "none"
                              /\ stack' = <<>>
                              /\ idx' = idx + 1
                              /\ err' = "body"
                              /\ failedAt' = n
                              /\ UNCHANGED <<fs, pc>>
               ELSE /\ ok /\ eff = "none"
                    /\ stack' = returnSuccess(stack, fs[n])
                    /\ idx' = IF Len(stack) = 1 THEN idx + 1 ELSE idx
                    /\ UNCHANGED <<fs, calls, pc, err, failedAt>>
  /\ UNCHANGED <<graphVars, now, impl, roots, order, state, runNo, fs0, prev, watchVars>>

\* the for-of loop of run (Runnable) is exhausted
RunnableReturn ==
  /\ pc = "running"
  /\ impl = "runnable"
  /\ stack = <<>>
  /\ idx > Len(roots)
  /\ pc' = "resolved"
  /\ UNCHANGED <<graphVars, fs, now, impl, roots, order, idx, state, calls, err,
                 failedAt, runNo, fs0, prev, stack, watchVars>>

\* ------------------------------------------------------------------------
\* Construction, as test.ts does it: new Task([], body) for every vertex,
\* then tasks[i].deps.push(tasks[j]) in ascending j.
RECURSIVE SumLen(_, _)
SumLen(d, n) == IF n = 0 THEN 0 ELSE Len(d[n]) + SumLen(d, n - 1)

DepsPush(i, j) ==
  /\ pc = "idle"
  /\ wpc = "off"
  /\ \A k \in 1..Len(deps[i]) : deps[i][k] < j
  /\ SumLen(deps, NumNodes) < MaxEdges
  /\ deps' = [deps EXCEPT ![i] = Append(@, j)]
  /\ UNCHANGED <<kind, body, fs, now, runVars, watchVars>>

\* deps is a public array: a caller may push any node, in any order, twice
DepsPushAny(i, j) ==
  /\ pc = "idle"
  /\ wpc = "off"
  /\ SumLen(deps, NumNodes) < MaxEdges
  /\ deps' = [deps EXCEPT ![i] = Append(@, j)]
  /\ UNCHANGED <<kind, body, fs, now, runVars, watchVars>>

RECURSIVE SeqsUpTo(_, _)
SeqsUpTo(S, k) ==
  IF k = 0 THEN {<<>>}
  ELSE LET shorter == SeqsUpTo(S, k - 1)
       IN shorter \cup {Append(s, x) : s \in {t \in shorter : Len(t) = k - 1}, x \in S}

RootLists == SeqsUpTo(Nodes, MaxRoots)

\* root lists over the nodes 1..k that name no node twice (what a root
\* listed twice does is the linearizer's business, see Spec and SpecLin)
DistinctRoots(k) ==
  {t \in SeqsUpTo(1..k, MaxRoots) : \A i, j \in 1..Len(t) : t[i] = t[j] => i = j}

InitRun ==
  /\ impl = "shake"
  /\ roots = <<>>
  /\ order = <<>>
  /\ idx = 1
  /\ state = <<>>
  /\ calls = NoCalls
  /\ err = "none"
  /\ failedAt = 0
  /\ runNo = 0
  /\ fs0 = fs
  /\ prev = <<>>
  /\ stack = <<>>
  /\ wpc = "off"
  /\ pending = 0
  /\ consumed = 0

\* Task-only graphs, one run
Init ==
  /\ deps = [n \in Nodes |-> <<>>]
  /\ kind = [n \in Nodes |-> "task"]
  /\ body = [n \in Nodes |-> "any"]
  /\ fs = [n \in Nodes |-> NotFound]
  /\ now = InitNow
  /\ InitRun
  /\ pc = "idle"

\* ascending array of the members of a set of nodes
RECURSIVE SetToSeq(_)
SetToSeq(S) ==
  IF S = {} THEN <<>>
  ELSE LET m == CHOOSE x \in S : \A y \in S : x <= y
       IN <<m>> \o SetToSeq(S \ {m})

\* acyclic graphs over the nodes 1..k up to renaming: node i depends on a
\* subset of the nodes below it; the nodes above k stay unwired
Dags(k) ==
  {[n \in Nodes |-> SetToSeq(pick[n])] :
     pick \in {p \in [Nodes -> SUBSET (1..k)] :
                 \A n \in Nodes : /\ \A m \in p[n] : m < n
                                  /\ (n \notin 1..k => p[n] = {})}}

\* Task and file nodes over an acyclic graph of k nodes; no target is dated
\* in the future
InitStale(k) ==
  /\ deps \in Dags(k)
  /\ kind \in {kd \in [Nodes -> {"task", "file"}] :
                \A n \in Nodes : n \notin 1..k => kd[n] = "task"}
  /\ body = [n \in Nodes |-> "any"]
  /\ now = InitNow
  /\ fs \in {f \in [Nodes -> {NotFound} \cup 0..InitNow] :
               \A n \in Nodes : kind[n] = "task" => f[n] = NotFound}
  /\ InitRun
  /\ pc = "idle"

InitFile == InitStale(FileSize)

\* as InitStale(FileSize), with targets fs.stat fails on or has no mtime for
InitStat ==
  /\ deps \in Dags(FileSize)
  /\ kind \in {kd \in [Nodes -> {"task", "file"}] :
                \A n \in Nodes : n \notin 1..FileSize => kd[n] = "task"}
  /\ body = [n \in Nodes |-> "any"]
  /\ now = InitNow
  /\ fs \in {f \in [Nodes -> {NotFound, Denied, NoMtime} \cup 0..InitNow] :
               \A n \in Nodes : kind[n] = "task" => f[n] = NotFound}
  /\ InitRun
  /\ pc = "idle"

InitWatch == InitStale(WatchSize)

NextFile ==
  \/ \E v \in Impls, tasks \in DistinctRoots(FileSize) : RunStart(v, tasks)
  \/ \E ok \in BOOLEAN : TaskRun(ok)
  \/ \E ok \in BOOLEAN, eff \in BodyEffects : FileTaskRun(ok, eff)
  \/ \E ok \in BOOLEAN, eff \in BodyEffects : FileRun(ok, eff)
  \/ RunReturn
  \/ RunAgain
  \/ Tick

SpecFile == InitFile /\ [][NextFile]_vars

NextStat ==
  \/ \E v \in Impls, tasks \in DistinctRoots(FileSize) : RunStart(v, tasks)
  \/ \E ok \in BOOLEAN : TaskRun(ok)
  \/ \E ok \in BOOLEAN, eff \in BodyEffects : FileTaskRun(ok, eff)
  \/ \E ok \in BOOLEAN, eff \in BodyEffects : FileRun(ok, eff)
  \/ RunReturn
  \/ Tick

SpecStat == InitStat /\ [][NextStat]_vars

\* test.ts "run:task:multiple": every vertices vector (TRUE: body returns),
\* every edge matrix over TestSize tasks, pushed row by row in ascending j
TestNodes == 1..TestSize

\* before the loop body of the test has constructed anything
InitTest ==
  /\ deps = [n \in Nodes |-> <<>>]
  /\ kind = [n \in Nodes |-> "task"]
  /\ body = [n \in Nodes |-> "ok"]
  /\ fs = [n \in Nodes |-> NotFound]
  /\ now = InitNow
  /\ InitRun
  /\ pc = "new"

\* test.ts lines 65-72: the tasks of one (vertices, edges) pair
TestBuild(vertices, edges) ==
  /\ pc = "new"
  /\ pc' = "idle"
  /\ body' = [n \in Nodes |-> IF n \in TestNodes /\ ~vertices[n] THEN "throw" ELSE "ok"]
  /\ deps' = [n \in Nodes |-> SetToSeq(IF n \in TestNodes THEN edges[n] ELSE {})]
  /\ UNCHANGED <<kind, fs, now, impl, roots, order, idx, state, calls, err,
                 failedAt, runNo, fs0, prev, stack, watchVars>>

\* run(...tasks) of the test: every task is a root, in index order
NextTest ==
  \/ \E vertices \in [TestNodes -> BOOLEAN], edges \in [TestNodes -> SUBSET TestNodes] :
        TestBuild(vertices, edges)
  \/ \E v \in Impls : RunStart(v, SetToSeq(TestNodes))
  \/ \E ok \in BOOLEAN : TaskRun(ok)
  \/ RunReturn

SpecTest == InitTest /\ [][NextTest]_vars

\* a started run is awaited: the event loop resumes it after every body
RunStep == (\E ok \in BOOLEAN : TaskRun(ok)) \/ RunReturn

SpecTestFair == SpecTest /\ WF_vars(RunStep)

NextWatch ==
  \/ \E v \in Impls, tasks \in SeqsUpTo(1..WatchSize, MaxRoots) : WatchStart(v, tasks)
  \/ \E n \in {0} \cup Nodes, eff \in BodyEffects : FsEvent(n, eff)
  \/ WatchNext
  \/ \E ok \in BOOLEAN : TaskRun(ok)
  \/ \E ok \in BOOLEAN, eff \in BodyEffects : FileTaskRun(ok, eff)
  \/ \E ok \in BOOLEAN, eff \in BodyEffects : FileRun(ok, eff)
  \/ RunReturn
  \/ WatchThrow
  \/ Tick

SpecWatch == InitWatch /\ [][NextWatch]_vars

\* the README's example (test.ts lines 97-113): file`hello.c`, File hello.out
\* depending on it, Task greet depending on hello.out, and watch(".", greet)
hello_c == 1
hello == 2
greet == 3

InitReadme ==
  /\ deps = [n \in Nodes |-> IF n = hello THEN <<hello_c>>
                            ELSE IF n = greet THEN <<hello>> ELSE <<>>]
  /\ kind = [n \in Nodes |-> IF n \in {hello_c, hello} THEN "file" ELSE "task"]
  /\ body = [n \in Nodes |-> "any"]
  /\ now = InitNow
  /\ fs \in {f \in [Nodes -> {NotFound} \cup 0..InitNow] :
               \A n \in Nodes : kind[n] = "task" => f[n] = NotFound}
  /\ InitRun
  /\ pc = "idle"

NextReadme ==
  \/ \E v \in Impls : WatchStart(v, <<greet>>)
  \/ \E n \in {0} \cup Nodes, eff \in BodyEffects : FsEvent(n, eff)
  \/ WatchNext
  \/ \E ok \in BOOLEAN : TaskRun(ok)
  \/ \E ok \in BOOLEAN, eff \in BodyEffects : FileTaskRun(ok, eff)
  \/ \E ok \in BOOLEAN, eff \in BodyEffects : FileRun(ok, eff)
  \/ RunReturn
  \/ WatchThrow
  \/ Tick

SpecReadme == InitReadme /\ [][NextReadme]_vars

\* the linearizers applied to every graph over the test's tasks, with
\* dependency arrays in any order, and every root list: run up to its loop
NextLin ==
  \/ \E i, j \in TestNodes : DepsPushAny(i, j)
  \/ \E v \in Impls, tasks \in SeqsUpTo(TestNodes, MaxRoots) : RunStart(v, tasks)

SpecLin == Init /\ [][NextLin]_vars

\* the Runnable variant over acyclic graphs of task and file nodes
InitRunnable == InitStale(NumNodes)

NextRunnable ==
  \/ \E tasks \in RootLists : RunnableStart(tasks)
  \/ RunnableCall
  \/ \E ok \in BOOLEAN : RunnableTaskBody(ok)
  \/ \E ok \in BOOLEAN, eff \in BodyEffects : RunnableFileBody(ok, eff)
  \/ RunnableReturn
  \/ Tick

SpecRunnable == InitRunnable /\ [][NextRunnable]_vars

Next ==
  \/ \E i, j \in Nodes : DepsPush(i, j)
  \/ \E v \in Impls, tasks \in RootLists : RunStart(v, tasks)
  \/ \E ok \in BOOLEAN : TaskRun(ok)
  \/ RunReturn

Spec == Init /\ [][Next]_vars

\* ========================================================================
\* Properties

Range(s) == {s[i] : i \in 1..Len(s)}

\* nodes reachable from the set S along dependency edges (S included)
RECURSIVE ReachFrom(_, _)
ReachFrom(d, S) ==
  LET T == S \cup UNION {Range(d[n]) : n \in S}
  IN IF T = S THEN S ELSE ReachFrom(d, T)

\* the transitive dependencies of n
DepsPlus(d, n) == ReachFrom(d, Range(d[n]))

\* some node reachable from the roots lies on a dependency cycle
CyclicFrom(d, tasks) == \E n \in ReachFrom(d, Range(tasks)) : n \in DepsPlus(d, n)

Recorded == {state[i].task : i \in 1..Len(state)}

\* C1: within one run of an acyclic graph, whatever the roots (a root listed
\* twice, a node shared by several dependents), no node's body is invoked
\* more than once.
C1_BodyAtMostOnce == \A n \in Nodes : calls[n] <= 1

\* a finished run of c -> {a, b}, b -> a (a is shared by two dependents)
\* whose top is listed twice
C1_Witness ==
  /\ pc = "resolved"
  /\ \E a, b, c \in Nodes :
       /\ Cardinality({a, b, c}) = 3
       /\ Range(deps[c]) = {a, b} /\ Range(deps[b]) = {a} /\ deps[a] = <<>>
       /\ roots = <<c, c>>
       /\ calls[a] = 1 /\ calls[c] = 1

\* C2: a Status of node n is in state only behind a Status of each of its
\* direct dependencies, and a body has been invoked only when every
\* transitive dependency of its node is recorded in state.
C2_DepsFirst ==
  /\ \A p \in 1..Len(state) : \A m \in Range(deps[state[p].task]) :
        \E q \in 1..(p - 1) : state[q].task = m
  /\ \A n \in Nodes : calls[n] > 0 => DepsPlus(deps, n) \subseteq Recorded

\* run(b, c) with b and c depending on a: a is recorded first
C2_Witness ==
  /\ pc = "resolved"
  /\ \E a, b, c \in Nodes :
       /\ Cardinality({a, b, c}) = 3
       /\ deps[b] = <<a>> /\ deps[c] = <<a>> /\ deps[a] = <<>>
       /\ roots = <<b, c>>
       /\ Len(state) = 3 /\ state[1].task = a

\* C3: when a cycle is reachable from a root, the run has rejected with the
\* cyclic-dependency error and no body at all has been invoked.
C3_CycleRejectsBeforeBodies ==
  (runNo > 0 /\ CyclicFrom(deps, roots)) =>
     /\ pc = "rejected"
     /\ err = "cyclic dependency"
     /\ calls = NoCalls

\* a clean root listed before a root that reaches a two-node cycle
C3_Witness ==
  /\ pc = "rejected" /\ err = "cyclic dependency"
  /\ Len(roots) = 2
  /\ ~CyclicFrom(deps, <<roots[1]>>)
  /\ \E m \in Nodes : m # roots[2] /\ m \in DepsPlus(deps, roots[2])
                        /\ roots[2] \in DepsPlus(deps, m)

\* C4: in the test's universe (all edge matrices and body vectors over
\* TestSize tasks, all tasks as roots) a run resolves only if the graph is
\* acyclic and every body returns, rejects only if it is cyclic or some body
\* throws, and is executing bodies only if the graph is acyclic.
AllBodiesReturn == \A n \in TestNodes : body[n] = "ok"

C4_Settled ==
  LET good == ~CyclicFrom(deps, roots) /\ AllBodiesReturn
  IN /\ pc = "resolved" => good
     /\ pc = "rejected" => ~good
     /\ pc = "running" => ~CyclicFrom(deps, roots)

\* C4 (continued): and every run the test starts does settle.
C4_ResolvesIffAcyclicAndOk ==
  /\ []C4_Settled
  /\ (pc = "running") ~> (pc \in {"resolved", "rejected"})

\* an acyclic graph with a shared node resolves
C4_Witness ==
  /\ pc = "resolved"
  /\ Len(deps[3]) = 2 /\ deps[2] = <<1>> /\ deps[1] = <<>>
  /\ calls = [n \in Nodes |-> IF n \in TestNodes THEN 1 ELSE 0]

\* C5: once a body has thrown the run is rejected with that error at that
\* node: the node was invoked once, nothing was appended for it, and no node
\* behind it in the order, so no dependent of it, has been invoked.
C5_FailureStopsRun ==
  err = "body" =>
     /\ pc = "rejected"
     /\ idx <= Len(order) /\ failedAt = order[idx]
     /\ calls[failedAt] = 1
     /\ Len(state) = idx - 1
     /\ \A j \in (idx + 1)..Len(order) : calls[order[j]] = 0
     /\ \A n \in Nodes : failedAt \in DepsPlus(deps, n) => calls[n] = 0

\* the middle node of a chain throws: its dependency ran, its dependent did not
C5_Witness ==
  /\ err = "body"
  /\ idx = 2 /\ Len(order) = 3
  /\ order[2] \in Range(deps[order[3]])
  /\ order[1] \in Range(deps[order[2]])
  /\ calls[order[1]] = 1 /\ calls[order[3]] = 0

\* ------------------------------------------------------------------------
\* Staleness

\* the timestamps state holds for the direct dependencies ds
DepTimes(st, ds) == {st[i].mtime : i \in {j \in 1..Len(st) : includes(ds, st[j].task)}}

\* the maximum of a set of timestamps, the epoch when there is none
MaxOf(S) == IF S = {} THEN 0 ELSE CHOOSE x \in S : \A y \in S : y <= x

\* this step is the run(state) call of the file node at order[idx]
FileVisit ==
  /\ pc = "running" /\ idx <= Len(order) /\ kind[order[idx]] = "file"
  /\ (idx' # idx \/ pc' # pc)

\* the target is missing or not newer than the newest recorded dependency
Stale(n) == fs[n] = NotFound \/ fs[n] <= MaxOf(DepTimes(state, deps[n]))

BodyRan(n) == calls'[n] = calls[n] + 1

\* C6: a visited file node runs its body exactly when its target is missing
\* or not newer than the newest Status of its direct dependencies in state,
\* and when it skips the body it records the target's existing timestamp.
C6_RunsIffStale ==
  [][FileVisit =>
       LET n == order[idx]
       IN /\ BodyRan(n) <=> Stale(n)
          /\ ~Stale(n) => state' = state \o <<status(n, fs[n])>>]_vars

\* C6 for FileTask of shake.ts alone
C6_RunsIffStale_FileTask ==
  [][(FileVisit /\ impl = "shake") =>
       LET n == order[idx]
       IN /\ BodyRan(n) <=> Stale(n)
          /\ ~Stale(n) => state' = state \o <<status(n, fs[n])>>]_vars

\* C7: a visited file node whose target does not exist runs its body, and a
\* Status it appends carries the target's timestamp as the body left it.
C7_MissingRunsBody ==
  [][(FileVisit /\ fs[order[idx]] = NotFound) =>
       LET n == order[idx]
       IN /\ BodyRan(n)
          /\ Len(state') > Len(state) => state'[Len(state')].mtime = fs'[n]]_vars

\* C7 for FileTask of shake.ts alone
C7_MissingRunsBody_FileTask ==
  [][(FileVisit /\ impl = "shake" /\ fs[order[idx]] = NotFound) =>
       LET n == order[idx]
       IN /\ BodyRan(n)
          /\ Len(state') > Len(state) => state'[Len(state')].mtime = fs'[n]]_vars

\* every node the run reaches is a file node
AllFile == \A n \in ReachFrom(deps, Range(roots)) : kind[n] = "file"

\* C8 as stated: in an all-file graph the second of two successive runs
\* invokes no body.
C8_SecondRunRunsNothing == (runNo = 2 /\ AllFile) => calls = NoCalls

\* every reached target exists, is dated after the epoch and is strictly
\* newer than the targets of its direct dependencies
Fresh(f) ==
  \A n \in ReachFrom(deps, Range(roots)) :
     /\ f[n] # NotFound /\ f[n] > 0
     /\ \A m \in Range(deps[n]) : f[m] # NotFound /\ f[m] < f[n]

\* C8 (amended): in an all-file graph, when the first run resolved and left
\* every reached target existing, dated after the epoch and strictly newer
\* than its dependencies' targets, the second run invokes no body and
\* does not reject.
C8_FreshSecondRunRunsNothing ==
  (runNo = 2 /\ AllFile /\ Fresh(fs0)) => (calls = NoCalls /\ pc # "rejected")

\* the second run over a chain of files resolved, after the first run had
\* rebuilt a dependent (no target is dated after InitNow initially)
C8_Witness ==
  /\ runNo = 2 /\ pc = "resolved" /\ AllFile /\ Fresh(fs0)
  /\ Len(state) >= 2
  /\ \E n \in Recorded : deps[n] # <<>> /\ fs0[n] > InitNow

\* C9 as stated: a file node whose body ran and returned records a timestamp
\* at or after the newest Status of its direct dependencies.
C9_RecordedNotOlderThanDeps ==
  [][(FileVisit /\ BodyRan(order[idx]) /\ Len(state') > Len(state)) =>
       state'[Len(state')].mtime >= MaxOf(DepTimes(state, deps[order[idx]]))]_vars

\* C9 (amended): ... provided the body left the target with a timestamp at
\* or after the newest Status of the node's direct dependencies.
C9_RecordedNotOlderWhenTargetIsNot ==
  [][(FileVisit /\ BodyRan(order[idx]) /\ Len(state') > Len(state)) =>
       LET n == order[idx]
           newest == MaxOf(DepTimes(state, deps[n]))
       IN (fs'[n] # NotFound /\ fs'[n] >= newest) =>
             state'[Len(state')].mtime >= newest]_vars

\* a file node was rebuilt behind a dependency recorded after the epoch
C9_Witness ==
  /\ pc = "running" /\ Len(state) >= 2
  /\ LET s == state[Len(state)]
     IN /\ kind[s.task] = "file" /\ calls[s.task] = 1
        /\ fs[s.task] # fs0[s.task]
        /\ MaxOf(DepTimes(state, deps[s.task])) > 0
        /\ s.mtime >= MaxOf(DepTimes(state, deps[s.task]))

\* ------------------------------------------------------------------------
\* Watch

\* C10: a body that throws during a run the watch loop started does not end
\* the loop: the promise of watch does not reject because of it.
C10_WatchSurvivesBodyError == ~(wpc = "rejected" /\ err = "body")

\* C11: the watch loop starts exactly one run per event it consumes, always
\* with the roots and the design watch was called with; it consumes an event
\* only when no run is in progress (none started yet, or the previous one
\* resolved), and never again once a run has rejected.
C11_OneRunPerEvent ==
  /\ [](wpc # "off" => runNo = consumed)
  /\ [][wpc # "off" => (roots' = roots /\ impl' = impl)]_vars
  /\ [][consumed' # consumed =>
          /\ pc \in {"idle", "resolved"}
          /\ consumed' = consumed + 1 /\ runNo' = runNo + 1
          /\ state' = <<>> /\ calls' = NoCalls
          /\ pc' \in {"running", "rejected"}]_vars

\* the loop has consumed two events and the second run, like the first,
\* resolved over the same roots
C11_Witness ==
  /\ wpc = "watching" /\ consumed = 2 /\ runNo = 2
  /\ pc = "resolved" /\ Len(state) >= 2 /\ Len(prev) = Len(state)
  /\ \E n \in Nodes : calls[n] = 1

\* C12: in the runs of a watch loop, the timestamp a file node records is
\* never older than the one the previous run recorded for it.
C12_RecordedNeverGoesBack ==
  \A i \in 1..Len(state), j \in 1..Len(prev) :
     (state[i].task = prev[j].task /\ kind[state[i].task] = "file")
        => state[i].mtime >= prev[j].mtime

\* C12 for FileTask of shake.ts alone
C12_RecordedNeverGoesBack_FileTask ==
  impl = "shake" => C12_RecordedNeverGoesBack

\* ------------------------------------------------------------------------
\* Nodes and State

\* this step is the run(state) call of the node at order[idx]
NodeVisit ==
  /\ pc = "running" /\ idx <= Len(order)
  /\ (idx' # idx \/ pc' # pc)

\* C14: a visited task node always has its body invoked, whatever state
\* holds; when the body returns, a Status of the node dated now is appended,
\* when it throws nothing is; and in every run that resolved, the first or
\* a repeated one, every task node reached has had its body invoked exactly
\* once and is recorded.
C14_TaskAlwaysRuns ==
  /\ [][(NodeVisit /\ kind[order[idx]] = "task") =>
          LET n == order[idx]
          IN /\ BodyRan(n)
             /\ pc' = "running" => state' = state \o <<status(n, now)>>
             /\ pc' = "rejected" => state' = state]_vars
  /\ [](pc = "resolved" =>
          \A n \in ReachFrom(deps, Range(roots)) :
             kind[n] = "task" => (calls[n] = 1 /\ n \in Recorded))

\* in a second run a task ran again behind a file dependency that was
\* skipped as up to date
C14_Witness ==
  /\ runNo = 2 /\ pc = "resolved"
  /\ \E n \in Recorded :
       /\ kind[n] = "task" /\ calls[n] = 1
       /\ deps[n] # <<>> /\ kind[deps[n][1]] = "file" /\ calls[deps[n][1]] = 0

\* C15: a run that resolved returns a State with exactly one Status for
\* every node reachable from the roots and none for any other node, in the
\* order the nodes were executed; a run in progress holds the Statuses of
\* the nodes executed so far, in that order.
C15_OneStatusPerReachable ==
  /\ pc \in {"running", "resolved"} =>
        /\ Len(state) = idx - 1
        /\ \A i \in 1..Len(state) : state[i].task = order[i]
  /\ pc = "resolved" =>
        /\ Recorded = ReachFrom(deps, Range(roots))
        /\ Len(state) = Cardinality(ReachFrom(deps, Range(roots)))

\* run(b) resolved where b reaches a second node and a third node is
\* unreachable
C15_Witness ==
  /\ pc = "resolved" /\ Len(roots) = 1
  /\ Len(state) = 2
  /\ state[1].task \in Range(deps[roots[1]]) /\ state[2].task = roots[1]
  /\ \E n \in Nodes : n \notin Recorded /\ roots[1] \in Range(deps[n])

\* C17: the run(state) call of a node, of either kind, either appends exactly
\* one Status, of that node, behind the unchanged state it was given, or
\* fails and leaves state as it was; no step of a run removes, reorders or
\* rewrites a Status.
C17_StateAppendOnly ==
  /\ [][NodeVisit =>
          \/ /\ pc' = "running"
             /\ Len(state') = Len(state) + 1
             /\ SubSeq(state', 1, Len(state)) = state
             /\ state'[Len(state')].task = order[idx]
          \/ /\ pc' = "rejected"
             /\ state' = state]_vars
  /\ [][(runNo' = runNo /\ ~NodeVisit) => state' = state]_vars

\* a task was appended behind the Status of a file
C17_Witness ==
  /\ pc = "running" /\ Len(state) = 2
  /\ kind[state[1].task] = "file" /\ kind[state[2].task] = "task"
  /\ calls[state[2].task] = 1

\* C18: when the stat of a visited file node's target does not deliver a
\* timestamp for another reason than the target being missing, the node's run
\* fails with the error of the stat: the body is not invoked and nothing is
\* appended; the epoch stands in for a missing target only.
C18_StatFailureIsNotEpoch ==
  [][(FileVisit /\ fs[order[idx]] \in {Denied, NoMtime}) =>
        /\ pc' = "rejected"
        /\ err' \in {"PermissionDenied", "invalid mtime"}
        /\ ~BodyRan(order[idx])
        /\ state' = state]_vars

\* C18 for FileTask of shake.ts alone
C18_StatFailureIsNotEpoch_FileTask ==
  [][(FileVisit /\ impl = "shake" /\ fs[order[idx]] \in {Denied, NoMtime}) =>
        /\ pc' = "rejected"
        /\ err' \in {"PermissionDenied", "invalid mtime"}
        /\ ~BodyRan(order[idx])
        /\ state' = state]_vars

\* C18 for a stat that rejects (permission denied), in both designs
C18_StatErrorPropagates ==
  [][(FileVisit /\ fs[order[idx]] = Denied) =>
        /\ pc' = "rejected"
        /\ err' = "PermissionDenied"
        /\ ~BodyRan(order[idx])
        /\ state' = state]_vars

\* ------------------------------------------------------------------------
\* The linearizers

\* depth-first post-order from the nodes ts, in order, each node's
\* dependencies in declared order, skipping the nodes in seen
RECURSIVE DfsPost(_, _, _)
DfsPost(d, seen, ts) ==
  IF ts = <<>> THEN <<>>
  ELSE LET t == Head(ts)
       IN IF t \in seen THEN DfsPost(d, seen, Tail(ts))
          ELSE LET below == DfsPost(d, seen \cup {t}, d[t])
               IN below \o <<t>> \o
                  DfsPost(d, seen \cup {t} \cup Range(below), Tail(ts))

\* C16: for an acyclic graph (from the roots) the run is given an order, and
\* that order is the depth-first post-order from the roots: it lists every
\* node reachable from the roots, each once, no other node, and every node
\* behind all of its dependencies.
C16_LinearizerIsDfsPostOrder ==
  /\ (runNo > 0 /\ ~CyclicFrom(deps, roots)) => pc = "running"
  /\ pc = "running" =>
        /\ order = DfsPost(deps, {}, roots)
        /\ Range(order) = ReachFrom(deps, Range(roots))
        /\ Len(order) = Cardinality(Range(order))
        /\ \A p \in 1..Len(order) : \A m \in Range(deps[order[p]]) :
              \E q \in 1..(p - 1) : order[q] = m

\* a node whose dependencies are declared in descending order, one of them
\* twice, behind a root that is one of these dependencies
C16_Witness ==
  /\ pc = "running" /\ Len(roots) = 2 /\ Len(order) = 3
  /\ LET n == roots[2]
     IN /\ Len(deps[n]) = 3 /\ deps[n][1] > deps[n][2] /\ deps[n][3] = deps[n][1]
        /\ roots[1] = deps[n][2]

\* C19: what one linearizer made of a graph and a root list is what the
\* other makes of them: findCycle finds a cycle exactly when topsort throws,
\* and without a cycle tsort and topsort return the same array; on a cyclic
\* graph too, tsort and topsort come back, with no node listed twice.
C19_LinearizersAgree ==
  runNo > 0 =>
     LET here == [cyclic |-> pc = "rejected", sorted |-> order]
         other == IF impl = "shake" THEN "part0" ELSE "shake"
     IN /\ linearize(other, deps, roots) = here
        /\ (findCycle(deps, roots) # <<>>) <=> topsort(deps, roots).thrown
        /\ Len(tsort(deps, roots)) = Cardinality(Range(tsort(deps, roots)))
        /\ Len(topsort(deps, roots).sorted) <= NumNodes

\* a cycle behind the second dependency of the second root
C19_Witness ==
  /\ pc = "rejected" /\ Len(roots) = 2
  /\ ~CyclicFrom(deps, <<roots[1]>>)
  /\ LET n == roots[2]
     IN /\ Len(deps[n]) = 2
        /\ ~CyclicFrom(deps, <<deps[n][1]>>)
        /\ n \in DepsPlus(deps, deps[n][2])

\* ------------------------------------------------------------------------
\* The Runnable variant

\* C13: in the Runnable variant no node's body is invoked more than once in
\* a run, and a run that resolved without a failure has invoked the body of
\* every task node reachable from the roots exactly once.
C13_RunnableBodyOnce ==
  impl = "runnable" =>
     /\ \A n \in Nodes : calls[n] <= 1
     /\ (pc = "resolved" /\ err = "none") =>
           \A n \in ReachFrom(deps, Range(roots)) : kind[n] = "task" => calls[n] = 1

\* C13 for runs whose roots are all different: the sharing is between
\* dependents only
C13_RunnableBodyOnce_DistinctRoots ==
  (impl = "runnable" /\ Cardinality(Range(roots)) = Len(roots)
     /\ \A r \in Range(roots) : r \notin UNION {DepsPlus(deps, q) : q \in Range(roots)})
    => \A n \in Nodes : calls[n] <= 1

====
